---- MODULE Spec2Model ----
(***************************************************************************)
(* FeliCa attendance system: the tap handler of attendance.py              *)
(* (attendance_mode.on_connect, record_attendance, load_today_attendance)  *)
(* and the dashboard of dashboard.py (admin flags, snapshot builder,       *)
(* api_register, SSE notification hub), with the card registration of      *)
(* register.py.                                                            *)
(*                                                                         *)
(* Text (names, card ids, file names) is a sequence of one-character       *)
(* strings, so that strip(), upper(), startswith/in and the f-string file  *)
(* names are computed as the code computes them.  Python's None is the     *)
(* one-element sequence None, which no text of characters equals.          *)
(* The dashboard module's globals and the tap handler live in one          *)
(* interpreter: record_attendance imports dashboard and calls its          *)
(* notify_clients.                                                         *)
(***************************************************************************)
EXTENDS Integers, Sequences, FiniteSets, TLC

\* ------------------------------------------------------------------ bounds
MaxTaps == 3
MaxDay == 2
MaxClients == 2
MaxRequests == 2
MaxRoster == 3

\* ------------------------------------------------------------- text values
None == <<"None">>

\* the status texts "出席" (present) and "退席" (left), each one token
PRESENT == <<"PRESENT">>
ABSENT == <<"ABSENT">>

\* str.upper() on the characters that occur
UpperChar(ch) ==
    CASE ch = "a" -> "A"
      [] ch = "b" -> "B"
      [] ch = "f" -> "F"
      [] ch = "x" -> "X"
      [] ch = "y" -> "Y"
      [] ch = "q" -> "Q"
      [] OTHER -> ch

Upper(s) == [i \in 1..Len(s) |-> UpperChar(s[i])]

RECURSIVE LStrip(_)
LStrip(s) == IF s # <<>> /\ Head(s) = " " THEN LStrip(Tail(s)) ELSE s

RECURSIVE RStrip(_)
RStrip(s) == IF s # <<>> /\ s[Len(s)] = " " THEN RStrip(SubSeq(s, 1, Len(s) - 1)) ELSE s

\* str.strip()
Strip(s) == RStrip(LStrip(s))

\* str.replace(ch, "")
RECURSIVE RemoveChars(_, _)
RemoveChars(s, chars) ==
    IF s = <<>> THEN <<>>
    ELSE IF Head(s) \in chars THEN RemoveChars(Tail(s), chars)
    ELSE <<Head(s)>> \o RemoveChars(Tail(s), chars)

\* name.startswith(sub)
StartsWith(s, sub) == Len(sub) <= Len(s) /\ SubSeq(s, 1, Len(sub)) = sub

\* sub in name
Contains(s, sub) ==
    \E i \in 1..(Len(s) - Len(sub) + 1) : SubSeq(s, i, i + Len(sub) - 1) = sub

\* --------------------------------------------------------------- csv files
\* csv.DictReader: a row's value for a header field; a short row yields
\* None (restval) for the missing fields, a field the header lacks is a
\* KeyError for row[k] (reported as "KeyError").
KeyError == <<"KeyError">>

RECURSIVE IndexOf(_, _, _)
IndexOf(header, k, i) ==
    IF i > Len(header) THEN 0
    ELSE IF header[i] = k THEN i ELSE IndexOf(header, k, i + 1)

DictGet(header, row, k) ==
    LET i == IndexOf(header, k, 1) IN
    IF i = 0 THEN KeyError
    ELSE IF i > Len(row) THEN None
    ELSE row[i]

\* row[k].strip() raises on a missing key (KeyError) or on None
\* (AttributeError)
Raises(v) == v = KeyError \/ v = None

\* DictReader skips rows without any field
DataRows(rows) == SelectSeq(rows, LAMBDA r : r # <<>>)

\* ATTENDANCE_DIR / f"{student_id}_{name}.csv" (without the extension)
get_student_attendance_file(student_id, name) == student_id \o <<"_">> \o name

\* ATTENDANCE_DIR / f"{name}.csv" (without the extension)
DashboardStatusFile(name) == name

\* ------------------------------------------------------------ static input
\* the cards that can be presented: tag.identifier.hex() of each
Cards == { <<"a", "a">>, <<"b", "b">>, <<"f", "f">> }

\* students.csv as attendance.py's ensure_dirs creates it and main.py's
\* register mode fills it: two persons, "x" and "xy"; the second card id is
\* stored in lower case
RosterHeader == <<"idm", "student_id", "name">>
RosterRows == << << <<"A", "A">>, <<"1">>, <<"x">> >>,
                 << <<"b", "b">>, <<"2">>, <<"x", "y">> >> >>

\* seating.json: groups of rows of seat names (None marks a gap)
SEATING == << [color |-> "blue",
               seats |-> << << <<"x">>, None >>, << <<"(", "x", "y", ")">> >> >>],
              [color |-> "red",
               seats |-> << << <<"q">> >> >>] >>

\* attendance/<person>.csv always carries this header (record_attendance)
LedgerHeader == <<"date", "status", "timestamp">>

\* datetime.now().strftime("%Y-%m-%d") of day n
DayChar(n) ==
    CASE n = 0 -> "0" [] n = 1 -> "1" [] n = 2 -> "2" [] n = 3 -> "3"
      [] n = 4 -> "4" [] n = 5 -> "5" [] n = 6 -> "6" [] n = 7 -> "7"
      [] n = 8 -> "8" [] OTHER -> "9"

DateText(n) == <<"d", DayChar(n)>>

\* datetime.now().strftime("%Y-%m-%d %H:%M:%S") of day n
NowText(n) == DateText(n) \o <<" ", "t">>

\* ------------------------------------------------------------------- state
VARIABLES
    today,              \* the calendar day datetime.now() falls in
    students_csv,       \* students.csv: [header, rows]
    attendance_dir,     \* attendance/: file name -> rows of the file
    dashboard_importable, \* whether "from dashboard import notify_clients" succeeds
    run,                \* attendance_mode: [phase, terminate_flag, closes];
                        \* phase is "off" before it starts, "loop" in the
                        \* tap loop, "closed" after clf.close(), "crashed"
                        \* when an exception ended it; closes counts the
                        \* clf.close() calls
    students,           \* attendance_mode: idm -> [student_id, name]
    status_map,         \* attendance_mode: idm -> status
    tap,                \* on_connect in progress, or as it ended:
                        \* [pc, idm, status, calls, data, raised]
    unknown_tap_counter,\* dashboard.unknown_tap_counter["count"]
    pending_reassign,   \* dashboard.pending_reassign: [name, paused]
    pending_capture,    \* dashboard.pending_capture: [active, idm]
    sse_clients,        \* dashboard._sse_clients: the queues, by client id
    queues,             \* client id -> the messages in its queue.Queue
    yielded,            \* client id -> [line, data]: the yield statement
                        \* event_stream is suspended at (0 before the
                        \* first) and the message it sent there
    response,           \* the last HTTP response: [op, code, body]
    reg,                \* api_register in progress, by request thread:
                        \* [pc, name, idm, data, calls, code]
    register_mode,      \* register.py: [running, students (the idms it holds)]
    n_taps,             \* history: taps delivered to on_connect
    n_unknown,          \* history: taps of cards not in students
    req_tick,           \* history: flips with every HTTP request served
    written,            \* history: idm -> statuses written by that card's taps
    due,                \* history: client id -> the messages broadcast since
                        \* its queue was listed and not yet sent to it
    attempted,          \* history: idm -> the status of that card's taps whose
                        \* append failed since its last appended row, or None
    ended               \* history: the client ids whose connection has ended
                        \* and that have not connected again, each with
                        \* whether its queue was listed when it ended

vars == <<today, students_csv, attendance_dir, dashboard_importable, run, students,
          status_map, tap, unknown_tap_counter, pending_reassign,
          pending_capture, sse_clients, queues, yielded, response, reg,
          register_mode, n_taps,
          n_unknown, req_tick, written, due, attempted, ended>>

envVars == <<today, students_csv, dashboard_importable, run, students>>
regVars == <<reg, register_mode>>
adminVars == <<pending_reassign, pending_capture, response, req_tick, regVars>>
hubVars == <<sse_clients, queues, yielded, due, ended>>
histVars == <<n_taps, n_unknown, written, attempted>>

\* dict.get(k) with default None
Get(d, k) == IF k \in DOMAIN d THEN d[k] ELSE None

\* ----------------------------------------------------- attendance.py loads
RosterRowRaises(header, row) ==
    \/ Raises(DictGet(header, row, "idm"))
    \/ Raises(DictGet(header, row, "student_id"))
    \/ Raises(DictGet(header, row, "name"))

RECURSIVE LoadStudentRows(_, _, _)
LoadStudentRows(header, rows, acc) ==
    IF rows = <<>> THEN acc
    ELSE LET row == Head(rows)
             idm == Upper(Strip(DictGet(header, row, "idm")))
             info == [student_id |-> Strip(DictGet(header, row, "student_id")),
                      name |-> Strip(DictGet(header, row, "name"))]
         IN LoadStudentRows(header, Tail(rows), (idm :> info) @@ acc)

\* attendance.load_students: idm (upper case) -> {student_id, name}; it
\* raises, and attendance_mode never reaches the tap loop, when
\* RosterRowRaises holds of a row
load_students(csv) == LoadStudentRows(csv.header, DataRows(csv.rows), <<>>)

RECURSIVE TodayStatus(_, _, _)
TodayStatus(rows, day, acc) ==
    IF rows = <<>> THEN acc
    ELSE TodayStatus(Tail(rows), day,
                     IF DictGet(LedgerHeader, Head(rows), "date") = day
                     THEN Strip(DictGet(LedgerHeader, Head(rows), "status"))
                     ELSE acc)

StudentFile(info) == get_student_attendance_file(info.student_id, info.name)

\* attendance.load_today_attendance: idm -> the status of the last row dated
\* today, for the students whose file has such a row
load_today_attendance(studs, dir, day) ==
    LET st(idm) == IF StudentFile(studs[idm]) \in DOMAIN dir
                   THEN TodayStatus(dir[StudentFile(studs[idm])], DateText(day), None)
                   ELSE None
    IN [idm \in {i \in DOMAIN studs : st(i) # None} |-> st(idm)]

\* ------------------------------------------------- dashboard.py: snapshot
\* dashboard.load_students: the list of {idm, name}; ok is FALSE when a
\* row makes row["idm"].strip() or row["name"].strip() raise
dashboard_load_students(csv) ==
    LET rows == DataRows(csv.rows)
        bad(row) == \/ Raises(DictGet(csv.header, row, "idm"))
                    \/ Raises(DictGet(csv.header, row, "name"))
    IN IF \E i \in 1..Len(rows) : bad(rows[i])
       THEN [ok |-> FALSE, list |-> <<>>]
       ELSE [ok |-> TRUE,
             list |-> [i \in 1..Len(rows) |->
                         [idm |-> Upper(Strip(DictGet(csv.header, rows[i], "idm"))),
                          name |-> Strip(DictGet(csv.header, rows[i], "name"))]]]

\* dashboard.get_student_status: status and timestamp of the last row of
\* attendance/<name>.csv, whatever its date; None without such a row
get_student_status(name, dir) ==
    LET file == DashboardStatusFile(name) IN
    IF file \in DOMAIN dir /\ dir[file] # <<>>
    THEN LET row == dir[file][Len(dir[file])]
         IN [status |-> Strip(DictGet(LedgerHeader, row, "status")),
             timestamp |-> Strip(DictGet(LedgerHeader, row, "timestamp"))]
    ELSE [status |-> None, timestamp |-> None]

\* dashboard.match_student_to_seat: the first student whose name starts
\* with, or contains, the seat name without its parentheses; 0 when none
RECURSIVE match_student_to_seat(_, _, _)
match_student_to_seat(seat_name, list, i) ==
    IF i > Len(list) THEN 0
    ELSE LET clean_seat == RemoveChars(seat_name, {"(", ")"})
         IN IF StartsWith(list[i].name, clean_seat) \/ Contains(list[i].name, clean_seat)
            THEN i
            ELSE match_student_to_seat(seat_name, list, i + 1)

\* the seat names of the layout in the order _build_status_data visits them
RECURSIVE Concat(_)
Concat(ss) == IF ss = <<>> THEN <<>> ELSE Head(ss) \o Concat(Tail(ss))

LayoutSeats == Concat([g \in 1..Len(SEATING) |-> Concat(SEATING[g].seats)])

SeatData(seat_name, list, dir) ==
    LET i == match_student_to_seat(seat_name, list, 1) IN
    IF i # 0
    THEN LET info == get_student_status(list[i].name, dir)
         IN [seat_name |-> seat_name, full_name |-> list[i].name,
             status |-> info.status, timestamp |-> info.timestamp]
    ELSE [seat_name |-> seat_name, full_name |-> None,
          status |-> None, timestamp |-> None]

\* dashboard._build_status_data; ok is FALSE when load_students raises
build_status_data(csv, dir, counter, day) ==
    LET loaded == dashboard_load_students(csv)
        seats == SelectSeq(LayoutSeats, LAMBDA n : n # None)
        layout == [k \in 1..Len(seats) |-> SeatData(seats[k], loaded.list, dir)]
    IN IF ~loaded.ok
       THEN [ok |-> FALSE]
       ELSE [ok |-> TRUE,
             date |-> DateText(day),
             total |-> Len(seats),
             present |-> Cardinality({k \in 1..Len(seats) : layout[k].status = PRESENT}),
             layout |-> layout,
             unknown_tap |-> counter]

\* the snapshot of the current state
Snapshot == build_status_data(students_csv, attendance_dir, unknown_tap_counter, today)

\* ------------------------------------------------------------------- Init
\* queue.Queue(maxsize=50)
QueueMaxsize == 50

Requests == 1..MaxRequests

IdleRequest == [pc |-> "idle", name |-> None, idm |-> None,
                data |-> [ok |-> FALSE], calls |-> 0, code |-> 0]

IdleTap == [pc |-> "idle", idm |-> None, status |-> None, calls |-> 0,
            data |-> [ok |-> FALSE], raised |-> FALSE]

LedgerRow(day, status) == <<DateText(day), status, NowText(day)>>

\* attendance/ as earlier runs of attendance.py can have left it: empty,
\* or person x present and gone yesterday and present again today
InitialLedgers ==
    { <<>>,
      (<<"1", "_", "x">> :> << LedgerRow(0, PRESENT), LedgerRow(0, ABSENT),
                               LedgerRow(1, PRESENT) >>) }

Init ==
    /\ today = 1
    /\ students_csv = [header |-> RosterHeader, rows |-> RosterRows]
    /\ attendance_dir \in InitialLedgers
    /\ dashboard_importable \in BOOLEAN
    /\ run = [phase |-> "loop", terminate_flag |-> FALSE, closes |-> 0]
    /\ \A i \in 1..Len(students_csv.rows) :
         ~RosterRowRaises(students_csv.header, students_csv.rows[i])
    /\ students = load_students(students_csv)
    /\ status_map = load_today_attendance(students, attendance_dir, today)
    /\ tap = IdleTap
    /\ unknown_tap_counter = 0
    /\ pending_reassign = [name |-> None, paused |-> FALSE]
    /\ pending_capture = [active |-> FALSE, idm |-> None]
    /\ sse_clients = <<>>
    /\ queues = <<>>
    /\ yielded = <<>>
    /\ due = <<>>
    /\ ended = {}
    /\ response = [op |-> "none", code |-> 0, body |-> None]
    /\ reg = [r \in Requests |-> IdleRequest]
    /\ register_mode = [running |-> FALSE, students |-> {}]
    /\ n_taps = 0
    /\ n_unknown = 0
    /\ req_tick = FALSE
    /\ written = [idm \in DOMAIN students |-> <<>>]
    /\ attempted = [idm \in DOMAIN students |-> None]

\* students.csv as the dashboard can find it: not there, or created by
\* register.py or api_register
HubRosters ==
    { [header |-> <<>>, rows |-> <<>>],
      [header |-> <<"idm", "name">>, rows |-> << <<<<"A", "A">>, <<"x">>>> >>] }

\* or created by attendance.py
AllRosters == HubRosters \cup { [header |-> RosterHeader, rows |-> RosterRows] }

\* the dashboard is up and attendance.py is not running: students and
\* status_map, the locals of attendance_mode, hold nothing
InitOff(rosters, ledgers) ==
    /\ today = 1
    /\ students_csv \in rosters
    /\ attendance_dir \in ledgers
    /\ dashboard_importable = TRUE
    /\ run = [phase |-> "off", terminate_flag |-> FALSE, closes |-> 0]
    /\ students = <<>>
    /\ status_map = <<>>
    /\ tap = IdleTap
    /\ unknown_tap_counter = 0
    /\ pending_reassign = [name |-> None, paused |-> FALSE]
    /\ pending_capture = [active |-> FALSE, idm |-> None]
    /\ sse_clients = <<>>
    /\ queues = <<>>
    /\ yielded = <<>>
    /\ due = <<>>
    /\ ended = {}
    /\ response = [op |-> "none", code |-> 0, body |-> None]
    /\ reg = [r \in Requests |-> IdleRequest]
    /\ register_mode = [running |-> FALSE, students |-> {}]
    /\ n_taps = 0
    /\ n_unknown = 0
    /\ req_tick = FALSE
    /\ written = <<>>
    /\ attempted = <<>>

InitDashboard(rosters) == InitOff(rosters, {<<>>})

\* students.csv with and without a row that lacks its name
LoadRosters ==
    { [header |-> RosterHeader, rows |-> RosterRows],
      [header |-> RosterHeader,
       rows |-> << RosterRows[1], << <<"c", "c">>, <<"3">> >>, RosterRows[2] >>] }

\* attendance/ with and without a row of today that lacks its status
LoadLedgers ==
    { <<>>,
      (<<"1", "_", "x">> :> << LedgerRow(0, PRESENT), LedgerRow(1, PRESENT) >>),
      (<<"1", "_", "x">> :> << LedgerRow(0, PRESENT), << DateText(1) >>,
                               LedgerRow(1, PRESENT) >>) }

\* ------------------------------------------------- attendance_mode starts
\* load_today_attendance raises at a row dated today without a status:
\* row.get("status", ...) is None there (lines 83-84)
LedgerRowRaises(row, day) ==
    /\ DictGet(LedgerHeader, row, "date") = DateText(day)
    /\ Raises(DictGet(LedgerHeader, row, "status"))

LedgerRaises(studs, dir, day) ==
    \E idm \in DOMAIN studs :
        /\ StudentFile(studs[idm]) \in DOMAIN dir
        /\ \E i \in 1..Len(dir[StudentFile(studs[idm])]) :
             LedgerRowRaises(dir[StudentFile(studs[idm])][i], day)

\* attendance_mode lines 140-142: ensure_dirs creates the roster when it
\* does not exist, load_students and load_today_attendance read the
\* roster and the ledger; an exception raised by a row ends the program
attendance_mode_start ==
    /\ run.phase = "off"
    /\ students_csv' = IF students_csv.header # <<>> THEN students_csv
                       ELSE [header |-> RosterHeader, rows |-> <<>>]
    /\ LET rows == DataRows(students_csv'.rows)
           bad == \E i \in 1..Len(rows) : RosterRowRaises(students_csv'.header, rows[i])
           studs == IF bad THEN <<>> ELSE load_students(students_csv')
       IN IF bad \/ LedgerRaises(studs, attendance_dir, today)
          THEN /\ run' = [run EXCEPT !.phase = "crashed"]
               /\ UNCHANGED <<students, status_map, written, attempted>>
          ELSE /\ students' = studs
               /\ status_map' = load_today_attendance(studs, attendance_dir, today)
               /\ written' = [idm \in DOMAIN studs |-> <<>>]
               /\ attempted' = [idm \in DOMAIN studs |-> None]
               /\ run' = [run EXCEPT !.phase = "loop"]
    /\ UNCHANGED <<today, attendance_dir, dashboard_importable, tap,
                   unknown_tap_counter, adminVars, hubVars, n_taps, n_unknown>>

\* ------------------------------------------------------- the tap handler
\* faulty variant: the branch for a status other than PRESENT is missing
NextStatusNoElse(current_status) ==
    IF current_status = None THEN PRESENT ELSE ABSENT

\* on_connect lines 174-188: the status to write, from the current one
NextStatus(current_status) ==
    IF current_status = None THEN PRESENT
    ELSE IF current_status = PRESENT THEN ABSENT
    ELSE PRESENT

\* record_attendance lines 90-98: the row appended to the person's file,
\* which is created when it does not exist
AppendRow(dir, file, row) ==
    IF file \in DOMAIN dir
    THEN [dir EXCEPT ![file] = Append(@, row)]
    ELSE (file :> <<row>>) @@ dir

\* faulty variant: the row is not appended before the broadcast
KnownBranchNoAppend(idm) ==
    LET status == NextStatus(Get(status_map, idm)) IN
    /\ tap' = [IdleTap EXCEPT !.pc = "written", !.idm = idm, !.status = status]
    /\ written' = [written EXCEPT ![idm] = Append(@, status)]
    /\ attempted' = [attempted EXCEPT ![idm] = None]
    /\ UNCHANGED <<attendance_dir, status_map, unknown_tap_counter, n_unknown>>

\* on_connect, known card, up to the append inside record_attendance
KnownBranch(idm) ==
    LET status == NextStatus(Get(status_map, idm)) IN
    /\ attendance_dir' = AppendRow(attendance_dir, StudentFile(students[idm]),
                                   LedgerRow(today, status))
    /\ tap' = [IdleTap EXCEPT !.pc = "written", !.idm = idm, !.status = status]
    /\ written' = [written EXCEPT ![idm] = Append(@, status)]
    /\ attempted' = [attempted EXCEPT ![idm] = None]
    /\ UNCHANGED <<status_map, unknown_tap_counter, n_unknown>>

\* faulty variant: the unknown card is marked present in memory
UnknownBranchMarksPresent(idm) ==
    /\ tap' = [IdleTap EXCEPT !.idm = idm]
    /\ n_unknown' = n_unknown + 1
    /\ status_map' = (idm :> PRESENT) @@ status_map
    /\ UNCHANGED <<attendance_dir, unknown_tap_counter, written, attempted>>

\* on_connect, unknown card (lines 194-199): a message is printed
UnknownBranch(idm) ==
    /\ tap' = [IdleTap EXCEPT !.idm = idm]
    /\ n_unknown' = n_unknown + 1
    /\ UNCHANGED <<attendance_dir, status_map, unknown_tap_counter, written,
                   attempted>>

\* on_connect(tag) from its entry to the append (known card) or to its
\* return (unknown card); the admin flags of dashboard.py are not read
on_connect(card) ==
    /\ run.phase = "loop"
    /\ tap.pc = "idle"
    /\ n_taps < MaxTaps
    /\ n_taps' = n_taps + 1
    /\ LET idm == Upper(card) IN
       IF idm \in DOMAIN students THEN KnownBranch(idm) ELSE UnknownBranch(idm)
    /\ UNCHANGED <<envVars, adminVars, hubVars>>

\* faulty variant: status_map is updated before the append is tried
on_connect_append_failsLate(card) ==
    /\ run.phase = "loop"
    /\ tap.pc = "idle"
    /\ n_taps < MaxTaps
    /\ n_taps' = n_taps + 1
    /\ LET idm == Upper(card)
           status == NextStatus(Get(status_map, idm))
       IN /\ idm \in DOMAIN students
          /\ status_map' = (idm :> status) @@ status_map
          /\ tap' = [IdleTap EXCEPT !.idm = idm, !.raised = TRUE]
          /\ attempted' = [attempted EXCEPT ![idm] = status]
    /\ UNCHANGED <<envVars, adminVars, hubVars, attendance_dir,
                   unknown_tap_counter, n_unknown, written>>

\* on_connect, known card, when record_attendance's open() or write
\* (lines 92-98) raises: nothing is appended, at most the file has been
\* created; the exception leaves record_attendance and on_connect, whose
\* remaining lines (the status_map update, the broadcast) are not run
on_connect_append_fails(card) ==
    /\ run.phase = "loop"
    /\ tap.pc = "idle"
    /\ n_taps < MaxTaps
    /\ n_taps' = n_taps + 1
    /\ LET idm == Upper(card)
           status == NextStatus(Get(status_map, idm))
       IN /\ idm \in DOMAIN students
          /\ \/ UNCHANGED attendance_dir
             \/ /\ StudentFile(students[idm]) \notin DOMAIN attendance_dir
                /\ attendance_dir' = (StudentFile(students[idm]) :> <<>>) @@ attendance_dir
          /\ tap' = [IdleTap EXCEPT !.idm = idm, !.raised = TRUE]
          /\ attempted' = [attempted EXCEPT ![idm] = status]
    /\ UNCHANGED <<envVars, adminVars, hubVars, status_map, unknown_tap_counter,
                   n_unknown, written>>

\* record_attendance lines 101-103 and notify_clients lines 37-38: the
\* import, then the snapshot is built; a failure of either is swallowed
\* (lines 104-105)
NotifyBuild ==
    /\ tap.pc = "written"
    /\ tap' = IF ~dashboard_importable
              THEN [tap EXCEPT !.pc = "notified"]
              ELSE IF ~Snapshot.ok
              THEN [tap EXCEPT !.pc = "notified", !.calls = 1]
              ELSE [tap EXCEPT !.pc = "built", !.calls = 1, !.data = Snapshot]
    /\ UNCHANGED <<envVars, attendance_dir, status_map, unknown_tap_counter,
                   adminVars, hubVars, histVars>>

\* notify_clients lines 39-47: put_nowait into every queue of the list;
\* the full ones are removed from the list
\* faulty variant: a queue takes one message more than its maxsize
FullAbove(c) == Len(queues[c]) > QueueMaxsize

Full(c) == Len(queues[c]) >= QueueMaxsize

\* faulty variant: the full queues stay in the list
BroadcastKeepsFull(message) ==
    /\ queues' = [c \in DOMAIN queues |->
                    IF (\E i \in 1..Len(sse_clients) : sse_clients[i] = c) /\ ~Full(c)
                    THEN Append(queues[c], message)
                    ELSE queues[c]]
    /\ sse_clients' = sse_clients
    /\ due' = [c \in DOMAIN due |-> Append(due[c], message)]
    /\ UNCHANGED <<yielded, ended>>

\* faulty variant: only the first queue of the list is served
BroadcastFirstOnly(message) ==
    /\ queues' = [c \in DOMAIN queues |->
                    IF sse_clients # <<>> /\ sse_clients[1] = c /\ ~Full(c)
                    THEN Append(queues[c], message)
                    ELSE queues[c]]
    /\ sse_clients' = SelectSeq(sse_clients, LAMBDA c : ~Full(c))
    /\ due' = [c \in DOMAIN due |-> Append(due[c], message)]
    /\ UNCHANGED <<yielded, ended>>

Broadcast(message) ==
    /\ queues' = [c \in DOMAIN queues |->
                    IF (\E i \in 1..Len(sse_clients) : sse_clients[i] = c) /\ ~Full(c)
                    THEN Append(queues[c], message)
                    ELSE queues[c]]
    /\ sse_clients' = SelectSeq(sse_clients, LAMBDA c : ~Full(c))
    /\ due' = [c \in DOMAIN due |-> Append(due[c], message)]
    /\ UNCHANGED <<yielded, ended>>

NotifyDeliver ==
    /\ tap.pc = "built"
    /\ Broadcast(tap.data)
    /\ tap' = [tap EXCEPT !.pc = "notified"]
    /\ UNCHANGED <<envVars, attendance_dir, status_map, unknown_tap_counter,
                   adminVars, histVars>>

\* faulty variant: after a failed broadcast the in-memory status is left
\* as it was
TapReturnUnlessFailed ==
    /\ tap.pc = "notified"
    /\ status_map' = IF tap.data.ok THEN (tap.idm :> tap.status) @@ status_map
                     ELSE status_map
    /\ tap' = [tap EXCEPT !.pc = "idle"]
    /\ UNCHANGED <<envVars, attendance_dir, unknown_tap_counter, adminVars,
                   hubVars, histVars>>

\* on_connect lines 177/182/187 and 190-199: the in-memory status is set
\* and the handler returns
TapReturn ==
    /\ tap.pc = "notified"
    /\ status_map' = (tap.idm :> tap.status) @@ status_map
    /\ tap' = [tap EXCEPT !.pc = "idle"]
    /\ UNCHANGED <<envVars, attendance_dir, unknown_tap_counter, adminVars,
                   hubVars, histVars>>

\* what the interrupt and the end of the tap loop leave alone
NotRun == <<today, students_csv, dashboard_importable, students, attendance_dir,
            status_map, tap, unknown_tap_counter, adminVars, hubVars, histVars>>

\* handle_sigint, lines 145-147, run by the interpreter between two
\* instructions of the main thread, inside on_connect or outside
handle_sigint ==
    /\ run.phase = "loop"
    /\ run' = [run EXCEPT !.terminate_flag = TRUE]
    /\ UNCHANGED NotRun

\* faulty variant: the loop is left while on_connect is still running
tap_loop_exit_early ==
    /\ run.phase = "loop"
    /\ run.terminate_flag
    /\ run' = [run EXCEPT !.phase = "closed", !.closes = @ + 1]
    /\ UNCHANGED NotRun

\* lines 216-220: clf.connect has returned, the loop condition finds the
\* flag set, clf.close() is called
tap_loop_exit ==
    /\ run.phase = "loop"
    /\ run.terminate_flag
    /\ tap.pc = "idle"
    /\ run' = [run EXCEPT !.phase = "closed", !.closes = @ + 1]
    /\ UNCHANGED NotRun

\* midnight passes
DayRolls ==
    /\ today < MaxDay
    /\ today' = today + 1
    /\ UNCHANGED <<students_csv, attendance_dir, dashboard_importable, run,
                   students, status_map, tap, unknown_tap_counter, adminVars,
                   hubVars, histVars>>

\* --------------------------------------------------- dashboard.py: admin
\* what the admin handlers leave alone
NotAdmin == <<envVars, attendance_dir, status_map, tap, unknown_tap_counter,
              hubVars, histVars, regVars>>

Ok(op) == [op |-> op, code |-> 200, body |-> None]

Served == req_tick' = ~req_tick

\* POST /api/pause
api_pause ==
    /\ pending_reassign' = [pending_reassign EXCEPT !.paused = TRUE]
    /\ response' = Ok("api_pause")
    /\ Served
    /\ UNCHANGED <<pending_capture, NotAdmin>>

\* DELETE /api/pause
api_resume ==
    /\ pending_reassign' = [pending_reassign EXCEPT !.paused = FALSE]
    /\ response' = Ok("api_resume")
    /\ Served
    /\ UNCHANGED <<pending_capture, NotAdmin>>

\* faulty variant: the capture is refused while another mode is active
api_capture_start_busy ==
    /\ pending_capture' = IF pending_reassign.paused \/ pending_reassign.name # None
                          THEN pending_capture
                          ELSE [active |-> TRUE, idm |-> None]
    /\ response' = IF pending_reassign.paused \/ pending_reassign.name # None
                   THEN [op |-> "api_capture_start", code |-> 409, body |-> None]
                   ELSE Ok("api_capture_start")
    /\ Served
    /\ UNCHANGED <<pending_reassign, NotAdmin>>

\* POST /api/capture
api_capture_start ==
    /\ pending_capture' = [active |-> TRUE, idm |-> None]
    /\ response' = Ok("api_capture_start")
    /\ Served
    /\ UNCHANGED <<pending_reassign, NotAdmin>>

\* GET /api/capture
api_capture_status ==
    /\ response' = [op |-> "api_capture_status", code |-> 200,
                    body |-> pending_capture.idm]
    /\ Served
    /\ UNCHANGED <<pending_reassign, pending_capture, NotAdmin>>

\* DELETE /api/capture
api_capture_cancel ==
    /\ pending_capture' = [active |-> FALSE, idm |-> None]
    /\ response' = Ok("api_capture_cancel")
    /\ Served
    /\ UNCHANGED <<pending_reassign, NotAdmin>>

\* the "name" values a POST /api/reassign body carries
ReassignInputs == { <<"x">>, <<" ", "x", "y">>, <<" ">> }

\* POST /api/reassign
api_reassign(raw) ==
    LET name == Strip(raw) IN
    /\ IF name = <<>>
       THEN /\ response' = [op |-> "api_reassign", code |-> 400, body |-> None]
            /\ UNCHANGED pending_reassign
       ELSE /\ pending_reassign' = [pending_reassign EXCEPT !.name = name]
            /\ response' = Ok("api_reassign")
    /\ Served
    /\ UNCHANGED <<pending_capture, NotAdmin>>

\* faulty variant: the cancel also ends the pause
api_cancel_reassign_resumes ==
    /\ pending_reassign' = [name |-> None, paused |-> FALSE]
    /\ response' = Ok("api_cancel_reassign")
    /\ Served
    /\ UNCHANGED <<pending_capture, NotAdmin>>

\* DELETE /api/reassign
api_cancel_reassign ==
    /\ pending_reassign' = [pending_reassign EXCEPT !.name = None]
    /\ response' = Ok("api_cancel_reassign")
    /\ Served
    /\ UNCHANGED <<pending_capture, NotAdmin>>

\* ------------------------------------------- dashboard.py: api_register
\* students.csv exists: the code only ever creates it with a header line
RosterExists(csv) == csv.header # <<>>

\* the "name" and "idm" values a POST /api/register body carries
RegisterNames == { <<"z">>, <<" ">> }
RegisterIdms == { <<>>, <<" ", "A", "A">> }

\* what the steps of api_register leave alone
NotRegister == <<today, dashboard_importable, run, students, attendance_dir,
                 status_map, tap, unknown_tap_counter, pending_reassign,
                 pending_capture, register_mode, histVars>>

\* faulty variant: the row is written before the name is looked at
api_register_writes_first(r, raw_name, raw_idm) ==
    LET name == Strip(raw_name)
        idm == Strip(raw_idm)
    IN /\ reg[r].pc \in {"idle", "done"}
       /\ IF name = <<>>
          THEN /\ reg' = [reg EXCEPT ![r] = [IdleRequest EXCEPT !.pc = "done", !.code = 400]]
               /\ response' = [op |-> "api_register", code |-> 400, body |-> None]
               /\ Served
               /\ students_csv' = [students_csv EXCEPT !.rows = Append(@, <<idm, name>>)]
          ELSE /\ reg' = [reg EXCEPT ![r] = [IdleRequest EXCEPT !.pc = "exists",
                                                              !.name = name, !.idm = idm]]
               /\ UNCHANGED <<response, req_tick, students_csv>>
       /\ UNCHANGED <<hubVars, NotRegister>>

\* POST /api/register lines 206-212: the body is read; an empty name is
\* answered with 400
api_register(r, raw_name, raw_idm) ==
    LET name == Strip(raw_name)
        idm == Strip(raw_idm)
    IN /\ reg[r].pc \in {"idle", "done"}
       /\ IF name = <<>>
          THEN /\ reg' = [reg EXCEPT ![r] = [IdleRequest EXCEPT !.pc = "done", !.code = 400]]
               /\ response' = [op |-> "api_register", code |-> 400, body |-> None]
               /\ Served
          ELSE /\ reg' = [reg EXCEPT ![r] = [IdleRequest EXCEPT !.pc = "exists",
                                                              !.name = name, !.idm = idm]]
               /\ UNCHANGED <<response, req_tick>>
       /\ UNCHANGED <<students_csv, hubVars, NotRegister>>

\* line 215: STUDENTS_CSV.exists()
api_register_exists(r) ==
    /\ reg[r].pc = "exists"
    /\ reg' = [reg EXCEPT ![r].pc = IF RosterExists(students_csv) THEN "append" ELSE "create"]
    /\ UNCHANGED <<students_csv, response, req_tick, hubVars, NotRegister>>

\* lines 216-218: open(STUDENTS_CSV, "w") and the header line
api_register_create(r) ==
    /\ reg[r].pc = "create"
    /\ students_csv' = [header |-> <<"idm", "name">>, rows |-> <<>>]
    /\ reg' = [reg EXCEPT ![r].pc = "append"]
    /\ UNCHANGED <<response, req_tick, hubVars, NotRegister>>

\* lines 220-222: the row [idm, name] is appended
api_register_append(r) ==
    /\ reg[r].pc = "append"
    /\ students_csv' = [students_csv EXCEPT !.rows = Append(@, <<reg[r].idm, reg[r].name>>)]
    /\ reg' = [reg EXCEPT ![r].pc = "notify"]
    /\ UNCHANGED <<response, req_tick, hubVars, NotRegister>>

\* line 225 and notify_clients line 37: the snapshot is built; when
\* _build_status_data raises, so does api_register, and the request is
\* answered with 500
api_register_notify(r) ==
    /\ reg[r].pc = "notify"
    /\ IF Snapshot.ok
       THEN /\ reg' = [reg EXCEPT ![r].pc = "built", ![r].calls = 1, ![r].data = Snapshot]
            /\ UNCHANGED <<response, req_tick>>
       ELSE /\ reg' = [reg EXCEPT ![r] = [IdleRequest EXCEPT !.pc = "done", !.calls = 1, !.code = 500]]
            /\ response' = [op |-> "api_register", code |-> 500, body |-> None]
            /\ Served
    /\ UNCHANGED <<students_csv, hubVars, NotRegister>>

\* notify_clients lines 39-47 under the lock, then line 227
api_register_deliver(r) ==
    /\ reg[r].pc = "built"
    /\ Broadcast(reg[r].data)
    /\ reg' = [reg EXCEPT ![r] = [reg[r] EXCEPT !.pc = "done", !.code = 200,
                                                !.data = IdleRequest.data]]
    /\ response' = Ok("api_register")
    /\ Served
    /\ UNCHANGED <<students_csv, NotRegister>>

\* ------------------------------------------------------------ register.py
NotRegisterMode == <<today, dashboard_importable, run, students, attendance_dir,
                     status_map, tap, unknown_tap_counter, pending_reassign,
                     pending_capture, response, req_tick, reg, hubVars, histVars>>

\* register.load_students: the idms of the roster, in upper case
RegisterModeStudents(csv) ==
    LET list == dashboard_load_students(csv).list
    IN {list[i].idm : i \in 1..Len(list)}

\* register.py starts: ensure_files (lines 34-40) creates the roster when
\* it does not exist, load_students (lines 43-58) reads it; when a row
\* makes load_students raise the program ends
register_mode_start ==
    /\ ~register_mode.running
    /\ students_csv' = IF RosterExists(students_csv) THEN students_csv
                       ELSE [header |-> <<"idm", "name">>, rows |-> <<>>]
    /\ register_mode' = IF dashboard_load_students(students_csv').ok
                        THEN [running |-> TRUE,
                              students |-> RegisterModeStudents(students_csv')]
                        ELSE register_mode
    /\ UNCHANGED NotRegisterMode

\* the names typed at register.py's input() prompt
TypedNames == { <<"w">>, <<>> }

\* register_mode.on_connect, lines 109-150: a card it holds is reported
\* as registered already; otherwise the typed name, if not empty, is
\* appended with the card's idm
register_on_connect(card, typed) ==
    LET idm == Upper(card)
        name == Strip(typed)
    IN /\ register_mode.running
       /\ IF idm \in register_mode.students \/ name = <<>>
          THEN UNCHANGED <<students_csv, register_mode>>
          ELSE /\ students_csv' = [students_csv EXCEPT !.rows = Append(@, <<idm, name>>)]
               /\ register_mode' = [register_mode EXCEPT !.students = @ \cup {idm}]
       /\ UNCHANGED NotRegisterMode

\* ----------------------------------------------- dashboard.py: SSE stream
NotHub == <<envVars, attendance_dir, status_map, tap, unknown_tap_counter,
            adminVars, histVars>>

\* GET /api/stream, event_stream lines 180-182: the queue is created and,
\* under the lock, listed
api_stream(c) ==
    /\ c \notin DOMAIN queues
    /\ queues' = (c :> <<>>) @@ queues
    /\ sse_clients' = Append(sse_clients, c)
    /\ yielded' = (c :> [line |-> 0, data |-> [ok |-> FALSE]]) @@ yielded
    /\ due' = (c :> <<>>) @@ due
    /\ ended' = {e \in ended : e[1] # c}
    /\ UNCHANGED NotHub

\* faulty variant: the finally clause removes the first queue of the list
UnlistFirst(c) ==
    /\ sse_clients' = IF sse_clients = <<>> THEN <<>> ELSE Tail(sse_clients)
    /\ queues' = [q \in DOMAIN queues \ {c} |-> queues[q]]
    /\ yielded' = [q \in DOMAIN yielded \ {c} |-> yielded[q]]
    /\ due' = [q \in DOMAIN due \ {c} |-> due[q]]
    /\ ended' = ended \cup {<<c, \E i \in 1..Len(sse_clients) : sse_clients[i] = c>>}

\* the finally clause of event_stream, lines 195-198: the queue is
\* unlisted if it is still listed, and dies with the generator
Unlist(c) ==
    /\ sse_clients' = SelectSeq(sse_clients, LAMBDA q : q # c)
    /\ queues' = [q \in DOMAIN queues \ {c} |-> queues[q]]
    /\ yielded' = [q \in DOMAIN yielded \ {c} |-> yielded[q]]
    /\ due' = [q \in DOMAIN due \ {c} |-> due[q]]
    /\ ended' = ended \cup {<<c, \E i \in 1..Len(sse_clients) : sse_clients[i] = c>>}

\* event_stream lines 185-186: the snapshot is built and sent first; when
\* it cannot be built the generator ends through its finally clause
event_stream_first(c) ==
    /\ c \in DOMAIN queues
    /\ yielded[c].line = 0
    /\ IF Snapshot.ok
       THEN /\ yielded' = [yielded EXCEPT ![c] = [line |-> 186, data |-> Snapshot]]
            /\ UNCHANGED <<sse_clients, queues, due, ended>>
       ELSE Unlist(c)
    /\ UNCHANGED NotHub

\* event_stream lines 188-191: a queued message is taken and sent (the
\* keepalive comment sent after 30 s without a message changes nothing)
event_stream_get(c) ==
    /\ c \in DOMAIN queues
    /\ yielded[c].line # 0
    /\ queues[c] # <<>>
    /\ queues' = [queues EXCEPT ![c] = Tail(@)]
    /\ yielded' = [yielded EXCEPT ![c] = [line |-> 190, data |-> Head(queues[c])]]
    /\ due' = [due EXCEPT ![c] = IF @ = <<>> THEN @ ELSE Tail(@)]
    /\ UNCHANGED <<sse_clients, ended, NotHub>>

\* event_stream lines 195-198: the client goes away while the generator
\* is suspended at a yield
event_stream_close(c) ==
    /\ c \in DOMAIN queues
    /\ yielded[c].line # 0
    /\ Unlist(c)
    /\ UNCHANGED NotHub

\* ------------------------------------------------------- specifications
Clients == 1..MaxClients

TapStep ==
    \/ \E card \in Cards : on_connect(card)
    \/ NotifyBuild
    \/ NotifyDeliver
    \/ TapReturn

StreamStep ==
    \/ \E c \in Clients : api_stream(c)
    \/ \E c \in Clients : event_stream_first(c)
    \/ \E c \in Clients : event_stream_get(c)
    \/ \E c \in Clients : event_stream_close(c)

AdminStep ==
    \/ api_pause
    \/ api_resume
    \/ api_capture_start
    \/ api_capture_status
    \/ api_capture_cancel
    \/ \E raw \in ReassignInputs : api_reassign(raw)
    \/ api_cancel_reassign

\* the streams of one dashboard page
ViewerStep ==
    \/ api_stream(1)
    \/ event_stream_first(1)
    \/ event_stream_get(1)
    \/ event_stream_close(1)

\* students.csv holds, or is about to hold, fewer than limit rows
RosterRoom(limit) ==
    Len(students_csv.rows)
      + Cardinality({r \in Requests : reg[r].pc \in {"exists", "create", "append"}})
    < limit

RegisterStep(threads, limit, names, idms) ==
    \/ \E r \in threads, raw_name \in names, raw_idm \in idms :
         RosterRoom(limit) /\ api_register(r, raw_name, raw_idm)
    \/ \E r \in threads : api_register_exists(r)
    \/ \E r \in threads : api_register_create(r)
    \/ \E r \in threads : api_register_append(r)
    \/ \E r \in threads : api_register_notify(r)
    \/ \E r \in threads : api_register_deliver(r)

RegisterModeStep(limit) ==
    \/ register_mode_start
    \/ \E card \in Cards, typed \in TypedNames :
         RosterRoom(limit) /\ register_on_connect(card, typed)

\* the tap loop, the passing of days and the live stream of a page
Next == TapStep \/ DayRolls \/ ViewerStep

Spec == Init /\ [][Next]_vars

\* the tap loop and the admin requests
NextAdmin == TapStep \/ AdminStep

SpecAdmin == Init /\ [][NextAdmin]_vars

\* the tap loop and the operator's interrupt; the main thread goes on
\* running: a handler that has started runs to its return, and the loop
\* condition is evaluated
MainThreadStep == NotifyBuild \/ NotifyDeliver \/ TapReturn \/ tap_loop_exit

NextStop == TapStep \/ handle_sigint \/ tap_loop_exit

SpecStop == Init /\ [][NextStop]_vars /\ WF_vars(MainThreadStep)

\* attendance.py starts on rosters and ledgers that can hold a bad row,
\* then runs its tap loop; a page streams
NextLoad == attendance_mode_start \/ TapStep \/ ViewerStep

SpecLoad == InitOff(LoadRosters, LoadLedgers) /\ [][NextLoad]_vars

\* the tap loop with appends that can fail, and the live stream of a page
NextFail ==
    \/ TapStep
    \/ \E card \in Cards : on_connect_append_fails(card)
    \/ ViewerStep

SpecFail == Init /\ [][NextFail]_vars

\* the dashboard's hub: the registrations of one request thread, without
\* card ids, and the live streams
NextHub == RegisterStep({1}, MaxRoster, {<<"z">>}, {<<>>}) \/ StreamStep

SpecHub == InitDashboard(HubRosters) /\ [][NextHub]_vars

\* a mailbox fills: subscriber 1 connects before the first registration
\* and then stalls, taking nothing from its queue; subscriber 2 comes and
\* goes and takes every message before the request thread moves on; the
\* registrations go on until the stalled queue has overflowed
PromptTaken == 2 \in DOMAIN queues => queues[2] = <<>>

NextFull ==
    \/ PromptTaken /\ RegisterStep({1}, QueueMaxsize + MaxRoster, {<<"z">>}, {<<>>})
    \/ reg[1].pc = "idle" /\ api_stream(1)
    \/ event_stream_first(1)
    \/ event_stream_close(1)
    \/ api_stream(2)
    \/ event_stream_first(2)
    \/ event_stream_get(2)
    \/ event_stream_close(2)

SpecFull == InitDashboard(HubRosters) /\ [][NextFull]_vars

\* the requests that can be refused, next to the ones that are served,
\* and the live stream of a page
NextReject ==
    \/ RegisterStep({1}, MaxRoster, RegisterNames, {<<>>})
    \/ \E raw \in ReassignInputs : api_reassign(raw)
    \/ api_capture_start
    \/ ViewerStep

SpecReject == InitDashboard(HubRosters) /\ [][NextReject]_vars

\* the roster: the registrations of api_register and of register.py
NextRoster ==
    \/ RegisterStep({1}, MaxRoster, RegisterNames, RegisterIdms)
    \/ RegisterModeStep(MaxRoster)

SpecRoster == InitDashboard(AllRosters) /\ [][NextRoster]_vars

\* the tap loop while the dashboard serves register requests on the
\* roster attendance.py created (the file exists, and the request ends at
\* the snapshot it cannot build), and a page streams
NextSwallow ==
    \/ TapStep
    \/ RosterRoom(MaxRoster) /\ api_register(1, <<"z">>, <<>>)
    \/ api_register_exists(1)
    \/ api_register_append(1)
    \/ api_register_notify(1)
    \/ ViewerStep

SpecSwallow == Init /\ [][NextSwallow]_vars

\* the request threads of the dashboard serve register requests at the
\* same time, on a roster that may not exist yet, while a page streams
RaceNames == { <<"q">>, <<"x">> }

NextRace == RegisterStep(Requests, MaxRoster, RaceNames, {<<>>}) \/ ViewerStep

SpecRace == InitDashboard(HubRosters) /\ [][NextRace]_vars

\* --------------------------------------------------------------- helpers
StatusOf(row) == DictGet(LedgerHeader, row, "status")

RowsOf(idm) ==
    IF StudentFile(students[idm]) \in DOMAIN attendance_dir
    THEN attendance_dir[StudentFile(students[idm])]
    ELSE <<>>

\* the status of the last row of a person's file, None without a row
LastWritten(dir, idm) ==
    LET file == StudentFile(students[idm]) IN
    IF file \in DOMAIN dir /\ dir[file] # <<>>
    THEN StatusOf(dir[file][Len(dir[file])])
    ELSE None

\* this step is the delivery of a tap to on_connect
TapDelivered == n_taps' = n_taps + 1

\* ------------------------------------------------------------------- C1
\* C1: the statuses that the taps of one known card write to the ledger
\* alternate: the rows appended to the person's file during the run are
\* exactly the statuses written by that card's taps, each is PRESENT or
\* ABSENT, and no two consecutive ones are the same.
C1_StatusAlternates ==
    \A idm \in DOMAIN students :
        LET w == written[idm]
            rows == RowsOf(idm)
        IN /\ Len(rows) >= Len(w)
           /\ \A i \in 1..Len(w) :
                /\ StatusOf(rows[Len(rows) - Len(w) + i]) = w[i]
                /\ w[i] \in {PRESENT, ABSENT}
           /\ \A i \in 1..(Len(w) - 1) : w[i] # w[i + 1]

C1_ThreeTapsOfOneCard ==
    \E idm \in DOMAIN students : written[idm] = <<PRESENT, ABSENT, PRESENT>>

\* ------------------------------------------------------------------- C2
\* C2: a tap of a known card on a day for which the person's file holds
\* no row, or a last row ABSENT, writes PRESENT dated that day.
C2_AbsentOrUnsetTodayWritesPresent ==
    [][\A idm \in DOMAIN students :
         (/\ TapDelivered
          /\ tap'.idm = idm
          /\ TodayStatus(RowsOf(idm), DateText(today), None) \in {None, ABSENT})
         => /\ tap'.status = PRESENT
            /\ LastWritten(attendance_dir', idm) = PRESENT]_vars

\* ------------------------------------------------------------------- C3
\* C3 as claimed: by the time the broadcast step of an appending tap is
\* over, exactly one notify_clients call has been made for it.
C3_ExactlyOneBroadcast ==
    tap.pc = "notified" => tap.calls = 1 /\ LastWritten(attendance_dir, tap.idm) = tap.status

SomeQueueGrows ==
    \E c \in DOMAIN queues \cap DOMAIN queues' : Len(queues'[c]) > Len(queues[c])

\* C3 amended: a tap that appends a ledger row makes at most one
\* notify_clients call, exactly one when the dashboard module can be
\* imported and none otherwise; the row is in the ledger from before the
\* call until the handler returns; a message is enqueued only by the
\* delivery step of a tap whose row has been appended, and that step
\* precedes the handler's return.
C3_BroadcastAfterCommit ==
    /\ [](tap.pc # "idle" => LastWritten(attendance_dir, tap.idm) = tap.status)
    /\ [](tap.calls <= 1)
    /\ [](tap.pc \in {"built", "notified"} => (tap.calls = 1 <=> dashboard_importable))
    /\ [](tap.pc = "written" => tap.calls = 0)
    /\ [][SomeQueueGrows =>
            /\ tap.pc = "built"
            /\ tap'.pc = "notified"
            /\ LastWritten(attendance_dir, tap.idm) = tap.status
            /\ \A c \in DOMAIN queues :
                 (\E i \in 1..Len(sse_clients) : sse_clients[i] = c)
                 => queues'[c] = Append(queues[c], tap.data)]_vars

C3_BroadcastDelivered ==
    /\ tap.pc = "notified"
    /\ tap.calls = 1
    /\ \E c \in DOMAIN queues : queues[c] # <<>> /\ queues[c][Len(queues[c])] = tap.data

\* ------------------------------------------------------------------- C4
\* C4: once the handler has returned from a tap of a known card, the
\* snapshot shows that person's seat with the status the tap wrote, and
\* counts the person as present exactly when that status is PRESENT.
C4_SnapshotShowsTap ==
    (tap.pc = "idle" /\ tap.idm \in DOMAIN students)
    => /\ Snapshot.ok
       /\ \A k \in 1..Len(Snapshot.layout) :
            Snapshot.layout[k].full_name = students[tap.idm].name
            => Snapshot.layout[k].status = tap.status
       /\ (tap.status = PRESENT => Snapshot.present >= 1)

\* ------------------------------------------------------------------- C5
\* C5: the tap of a card that is not in the roster leaves status_map, the
\* ledger, the subscriber list and every queue unchanged and returns at
\* once; only taps of known cards reach the append and broadcast steps,
\* and status_map only ever holds known cards.
C5_UnknownTapInert ==
    /\ [][(TapDelivered /\ tap'.idm \notin DOMAIN students)
           => /\ status_map' = status_map
              /\ attendance_dir' = attendance_dir
              /\ queues' = queues
              /\ sse_clients' = sse_clients
              /\ tap'.pc = "idle"
              /\ tap'.calls = 0]_vars
    /\ [](tap.pc # "idle" => tap.idm \in DOMAIN students)
    /\ [](DOMAIN status_map \subseteq DOMAIN students)

C5_UnknownTapWithSubscriber ==
    /\ tap.idm # None
    /\ tap.idm \notin DOMAIN students
    /\ n_unknown >= 1
    /\ sse_clients # <<>>
    /\ status_map # <<>>

\* ------------------------------------------------------------------- C6
\* C6: the unknown-tap counter, and the snapshot's unknown_tap field,
\* equal the number of taps of unknown cards.
C6_UnknownTapsCounted ==
    /\ unknown_tap_counter = n_unknown
    /\ Snapshot.ok => Snapshot.unknown_tap = n_unknown

\* ------------------------------------------------------------------- C7
\* C7: a tap delivered while paused writes nothing to the ledger, changes
\* no status and starts no broadcast.
C7_PausedTapsDiscarded ==
    [][(pending_reassign.paused /\ TapDelivered)
        => /\ attendance_dir' = attendance_dir
           /\ status_map' = status_map
           /\ tap'.pc = "idle"]_vars

\* ------------------------------------------------------------------- C8
\* C8: the tap that follows BeginCapture is recorded as the captured id,
\* ends the capture mode and writes nothing to the ledger.
C8_CaptureTakesNextTap ==
    [][(/\ pending_capture.active
        /\ ~pending_reassign.paused
        /\ pending_reassign.name = None
        /\ TapDelivered)
        => /\ pending_capture' = [active |-> FALSE, idm |-> tap'.idm]
           /\ attendance_dir' = attendance_dir]_vars

\* ------------------------------------------------------------------- C9
\* C9: the tap that follows BeginReassign(p) binds the tapped card to p
\* and to nobody else in the roster, clears the pending target and
\* toggles nobody's attendance.
C9_ReassignBindsNextTap ==
    [][(/\ pending_reassign.name # None
        /\ ~pending_reassign.paused
        /\ ~pending_capture.active
        /\ TapDelivered)
        => /\ pending_reassign'.name = None
           /\ attendance_dir' = attendance_dir
           /\ status_map' = status_map
           /\ LET list == dashboard_load_students(students_csv').list
              IN \A i \in 1..Len(list) :
                   list[i].idm = tap'.idm <=> list[i].name = pending_reassign.name]_vars

\* ------------------------------------------------------------------ C10
\* C10 as claimed: at most one of Paused, AwaitingCapture and
\* AwaitingReassign is active.
ActiveModes ==
    {m \in {"Paused", "AwaitingCapture", "AwaitingReassign"} :
        \/ m = "Paused" /\ pending_reassign.paused
        \/ m = "AwaitingCapture" /\ pending_capture.active
        \/ m = "AwaitingReassign" /\ pending_reassign.name # None}

InList(list, c) == \E i \in 1..Len(list) : list[i] = c

Listed(c) == InList(sse_clients, c)

\* C11: a subscriber that is still listed (its queue was never found
\* full) has in its queue exactly the messages of the broadcasts that
\* took the lock since its queue was listed, less the ones it has taken
\* already, in the order of the broadcasts; what it takes from its queue
\* after the first snapshot is the oldest of them: no message is dropped
\* and none is sent twice.
C11_ExactlyOncePerBroadcast ==
    /\ [](\A c \in DOMAIN queues : Listed(c) => queues[c] = due[c])
    /\ [][\A c \in DOMAIN queues \cap DOMAIN queues' :
            (Listed(c) /\ yielded'[c] # yielded[c] /\ yielded[c].line # 0)
            => /\ due[c] # <<>>
               /\ yielded'[c] = [line |-> 190, data |-> Head(due[c])]
               /\ due'[c] = Tail(due[c])
               /\ queues'[c] = due'[c]]_vars

C11_TakenAndPending ==
    \E c, d \in DOMAIN queues :
        /\ c # d
        /\ Listed(c) /\ Listed(d)
        /\ yielded[c].line = 190
        /\ Len(queues[c]) = 1
        /\ Len(queues[d]) = 2

\* ------------------------------------------------------------------ C12
\* this step is the locked part of a notify_clients call, with message m
Delivers(m) ==
    \E r \in Requests : reg[r].pc = "built" /\ reg'[r].pc = "done" /\ m = reg[r].data

\* C12: the broadcast that finds a listed queue full unlists it and
\* leaves its content alone, and puts its message into every other
\* listed queue, which stays listed; an unlisted queue is never listed
\* again and gets no message; the locked part of a broadcast can always
\* be taken in one step, whatever the queues hold.
C12_FullSubscriberDropped ==
    /\ [][\A r \in Requests :
            (reg[r].pc = "built" /\ reg'[r].pc = "done")
            => \A c \in DOMAIN queues :
                 /\ c \in DOMAIN queues'
                 /\ (Listed(c) /\ Len(queues[c]) >= QueueMaxsize)
                    => ~InList(sse_clients', c) /\ queues'[c] = queues[c]
                 /\ (Listed(c) /\ Len(queues[c]) < QueueMaxsize)
                    => InList(sse_clients', c) /\ queues'[c] = Append(queues[c], reg[r].data)]_vars
    /\ [][\A c \in DOMAIN queues \cap DOMAIN queues' :
            ~Listed(c) => /\ ~InList(sse_clients', c)
                          /\ Len(queues'[c]) <= Len(queues[c])]_vars
    /\ [](\A r \in Requests : reg[r].pc = "built" => ENABLED api_register_deliver(r))

C12_FullDroppedOtherServed ==
    /\ reg[1].pc = "done"
    /\ 1 \in DOMAIN queues /\ ~Listed(1) /\ Len(queues[1]) = QueueMaxsize
    /\ 2 \in DOMAIN queues /\ Listed(2) /\ queues[2] # <<>>

\* ------------------------------------------------------------------ C16
\* C16: no queue ever holds more than maxsize = 50 messages.
C16_MailboxWithinCapacity ==
    \A c \in DOMAIN queues : Len(queues[c]) <= QueueMaxsize

C16_MailboxAtCapacity ==
    /\ \E c \in DOMAIN queues : Len(queues[c]) = QueueMaxsize /\ ~Listed(c)
    /\ Len(students_csv.rows) > QueueMaxsize + 1

\* ------------------------------------------------------------------ C17
\* C17: a queue is in the list at most once and only while its
\* connection lives; the step that ends a connection, still listed or
\* already unlisted for being full, leaves its queue out of the list and
\* changes neither the content nor the listing of any other queue; every
\* broadcast puts its message into every queue that is listed and not
\* full.
C17_MailboxListedOnce ==
    /\ [](\A i, j \in 1..Len(sse_clients) :
            /\ sse_clients[i] \in DOMAIN queues
            /\ sse_clients[i] = sse_clients[j] => i = j)
    /\ [][\A c \in DOMAIN queues \ DOMAIN queues' :
            /\ ~InList(sse_clients', c)
            /\ \A d \in DOMAIN queues \ {c} :
                 /\ d \in DOMAIN queues'
                 /\ queues'[d] = queues[d]
                 /\ InList(sse_clients', d) <=> Listed(d)]_vars
    /\ [][\A m \in {reg[r].data : r \in Requests} :
            Delivers(m)
            => \A d \in DOMAIN queues :
                 (Listed(d) /\ Len(queues[d]) < QueueMaxsize)
                 => queues'[d] # <<>> /\ queues'[d][Len(queues'[d])] = m]_vars

C17_EndedAfterSaturation ==
    /\ <<1, FALSE>> \in ended
    /\ Len(students_csv.rows) > QueueMaxsize + 1
    /\ 2 \in DOMAIN queues /\ Listed(2) /\ queues[2] # <<>>

\* ------------------------------------------------------------------ C13
\* the PresenceState of the ledger: idm -> status of the last row dated today
PresenceState == load_today_attendance(students, attendance_dir, today)

\* C13: the first message event_stream sends on a connection is the
\* snapshot, and its present count is the number of roster persons whose
\* last ledger row dated today is PRESENT.
C13_FirstSnapshotCountsPresent ==
    [][\A c \in DOMAIN yielded \cap DOMAIN yielded' :
         (yielded[c].line = 0 /\ yielded'[c].line # 0)
         => /\ yielded'[c].line = 186
            /\ yielded'[c].data.ok
            /\ yielded'[c].data.present
                 = Cardinality({idm \in DOMAIN students :
                                  Get(PresenceState, idm) = PRESENT})]_vars

\* ------------------------------------------------------------------ C14
\* C14: status_map holds, for every roster person, the status that a
\* reload of the ledger (last row dated today) yields; between the append
\* of a tap and the update of status_map the reload yields the status
\* that tap has written.
C14_MemoryMatchesLedger ==
    \A idm \in DOMAIN students :
        IF tap.pc # "idle" /\ tap.idm = idm
        THEN Get(PresenceState, idm) = tap.status
        ELSE Get(status_map, idm) = Get(PresenceState, idm)

\* ------------------------------------------------------------------ C15
\* C15: a tap whose append fails ends with the exception raised out of
\* on_connect, status_map, the subscriber list and the queues unchanged
\* and no notify_clients call made; the next tap of that card writes, or
\* fails to write, the status that the failed tap attempted.
C15_FailedAppendLeavesStatus ==
    /\ [][(TapDelivered /\ tap'.raised)
           => /\ tap'.pc = "idle"
              /\ tap'.calls = 0
              /\ status_map' = status_map
              /\ sse_clients' = sse_clients
              /\ queues' = queues
              /\ written' = written]_vars
    /\ [](tap.pc # "idle" => ~tap.raised)
    /\ [][\A idm \in DOMAIN students :
            (TapDelivered /\ tap'.idm = idm /\ attempted[idm] # None)
            => IF tap'.raised
               THEN attempted'[idm] = attempted[idm]
               ELSE /\ tap'.status = attempted[idm]
                    /\ LastWritten(attendance_dir', idm) = attempted[idm]]_vars

C15_RetryAfterFailure ==
    /\ n_taps = 3
    /\ n_unknown = 0
    /\ written = (<<"A", "A">> :> <<PRESENT, ABSENT>>) @@ (<<"B", "B">> :> <<>>)
    /\ attempted = (<<"A", "A">> :> None) @@ (<<"B", "B">> :> None)
    /\ tap.pc = "notified"
    /\ queues # <<>>

\* ------------------------------------------------------------------ C18
\* C18: a register request with a non-empty name ends answered ok, with
\* its row [idm, name] the last but pending ones of the roster and exactly
\* one notify_clients call made, after the row was written.
C18_RegisterAppendsThenBroadcasts ==
    /\ [][\A r \in Requests :
            (reg[r].pc \notin {"idle", "done"} /\ reg'[r].pc = "done")
            => /\ reg'[r].code = 200
               /\ response' = Ok("api_register")
               /\ reg'[r].calls = 1
               /\ reg[r].pc = "built"]_vars
    /\ [](\A r \in Requests :
            reg[r].pc \in {"notify", "built"}
            => \E i \in 1..Len(students_csv.rows) :
                 students_csv.rows[i] = <<reg[r].idm, reg[r].name>>)

\* ------------------------------------------------------------------ C19
\* C19: a request answered 400 (api_register without a name, api_reassign
\* without a name) leaves the roster, the ledger, status_map, the admin
\* flags, the subscriber list and every queue as they were, and makes no
\* notify_clients call.
C19_RejectedChangesNothing ==
    [][(req_tick' # req_tick /\ response'.code = 400)
        => /\ response'.op \in {"api_register", "api_reassign"}
           /\ students_csv' = students_csv
           /\ attendance_dir' = attendance_dir
           /\ status_map' = status_map
           /\ pending_reassign' = pending_reassign
           /\ pending_capture' = pending_capture
           /\ sse_clients' = sse_clients
           /\ queues' = queues
           /\ \A r \in Requests : reg'[r] # reg[r] => reg'[r].calls = 0]_vars

C19_BothRejected ==
    /\ response = [op |-> "api_reassign", code |-> 400, body |-> None]
    /\ reg[1].code = 400
    /\ pending_reassign.name # None
    /\ pending_capture.active
    /\ students_csv.rows # <<>>
    /\ \E c \in DOMAIN queues : queues[c] # <<>>

\* ------------------------------------------------------------------ C20
\* the card ids of the roster rows, as the loaders read them
RosterIdms ==
    LET rows == DataRows(students_csv.rows)
    IN [i \in 1..Len(rows) |-> Upper(Strip(DictGet(students_csv.header, rows[i], "idm")))]

\* C20: no two rows of the roster carry the same non-empty card id.
C20_CardIdsUnique ==
    \A i, j \in 1..Len(RosterIdms) :
        (i # j /\ RosterIdms[i] # <<>>) => RosterIdms[i] # RosterIdms[j]

\* ------------------------------------------------------------------ C21
\* this step serves DELETE /api/capture or DELETE /api/reassign
Cancels ==
    /\ req_tick' # req_tick
    /\ response'.op \in {"api_capture_cancel", "api_cancel_reassign"}

WellFormedRows ==
    SelectSeq(DataRows(students_csv.rows),
              LAMBDA row : ~RosterRowRaises(students_csv.header, row))

\* C22: a roster row or a ledger row that lacks a field does not end the
\* start of attendance.py: the program reaches its tap loop, where it
\* holds every well-formed roster row.
C22_MalformedRecordSkipped ==
    /\ run.phase # "crashed"
    /\ run.phase = "loop"
       => \A i \in 1..Len(WellFormedRows) :
            Upper(Strip(DictGet(students_csv.header, WellFormedRows[i], "idm")))
              \in DOMAIN students

BroadcastsCompleted == \A r \in Requests : reg[r].pc \in {"idle", "done"}

\* C24: once every broadcast of the concurrent callers has completed, the
\* last message in the mailbox of a subscriber that was sent several
\* payloads is the snapshot of the latest committed state, not an older
\* snapshot queued behind a newer one.
C24_LastMessageIsLatest ==
    \A c \in DOMAIN queues :
        (BroadcastsCompleted /\ Listed(c) /\ Len(queues[c]) > 1)
        => queues[c][Len(queues[c])] = Snapshot


\* ------------------------------------------------------------------ C25
\* C25: the record of every register request that was answered ok is in
\* the roster, whatever the other request threads do meanwhile.
C25_OkRegistrationKept ==
    \A r \in Requests :
        (reg[r].pc = "done" /\ reg[r].code = 200)
        => \E i \in 1..Len(students_csv.rows) :
             students_csv.rows[i] = <<reg[r].idm, reg[r].name>>


\* ------------------------------------------------------------------ C26
\* the broadcast step of the running tap has failed: the import, or the
\* building of the snapshot inside notify_clients
BroadcastFailed == tap.pc = "notified" /\ ~tap.data.ok

\* C26: when the dashboard cannot be imported or notify_clients raises
\* after the append, the handler goes on: nothing but the handler's
\* position changes, status_map then takes the written status, which is
\* the last row of the ledger; between taps status_map agrees with the
\* ledger, and each written status toggles from the one before.
C26_BroadcastFailureSwallowed ==
    /\ [][(tap.pc = "written" /\ tap' # tap /\ (~dashboard_importable \/ ~Snapshot.ok))
           => /\ tap' = [tap EXCEPT !.pc = "notified",
                                    !.calls = IF dashboard_importable THEN 1 ELSE 0]
              /\ run' = run
              /\ attendance_dir' = attendance_dir
              /\ queues' = queues]_vars
    /\ [][(BroadcastFailed /\ tap' # tap)
           => /\ tap'.pc = "idle"
              /\ Get(status_map', tap.idm) = tap.status
              /\ tap.status = LastWritten(attendance_dir, tap.idm)]_vars
    /\ [](tap.pc = "idle"
           => \A idm \in DOMAIN students :
                written[idm] # <<>>
                => /\ Get(status_map, idm) = written[idm][Len(written[idm])]
                   /\ LastWritten(attendance_dir, idm) = written[idm][Len(written[idm])])
    /\ [](\A idm \in DOMAIN students :
            \A i \in 2..Len(written[idm]) :
                written[idm][i] = NextStatus(written[idm][i - 1]))

\* notify_clients raised in both taps of a card, after a register request
\* wrote a row the dashboard cannot read; the second tap toggled
C26_ToggledAfterFailure ==
    /\ tap.pc = "idle"
    /\ tap.calls = 1
    /\ ~tap.data.ok
    /\ ~Snapshot.ok
    /\ written[tap.idm] = <<PRESENT, ABSENT>>
    /\ Get(status_map, tap.idm) = ABSENT
    /\ LastWritten(attendance_dir, tap.idm) = ABSENT

====
